---- MODULE Spec2Model ----
(***************************************************************************)
(* A model of api/pdf_syllabus_parseer.js: the POST /extract handler, the  *)
(* two text-acquisition paths (pdf-parse, then pdf2pic + tesseract.js),    *)
(* the regular-expression section locators and the late-policy filter.     *)
(*                                                                         *)
(* A JavaScript string is a sequence of one-character strings, so that     *)
(* String.prototype.match, trim, split, join, toLowerCase, includes and    *)
(* startsWith are computed character by character, as the engine does.     *)
(***************************************************************************)
EXTENDS Integers, Sequences, FiniteSets, TLC

(***************************************************************************)
(* Characters                                                              *)
(***************************************************************************)
NL == "\n"

AsciiUpper ==
  <<"A","B","C","D","E","F","G","H","I","J","K","L","M",
    "N","O","P","Q","R","S","T","U","V","W","X","Y","Z">>

AsciiLower ==
  <<"a","b","c","d","e","f","g","h","i","j","k","l","m",
    "n","o","p","q","r","s","t","u","v","w","x","y","z">>

UpperSet == {AsciiUpper[k] : k \in 1..26}

LowerSet == {AsciiLower[k] : k \in 1..26}

LowerMap == [c \in UpperSet |-> AsciiLower[CHOOSE k \in 1..26 : AsciiUpper[k] = c]]

\* \s of a JavaScript regular expression, and the characters trim() strips
WhiteSpace == {" ", "\t", "\n", "\r", "\f"}

\* the characters "." does not match (no "s" flag)
LineTerminators == {"\n", "\r"}

\* the class [:\n]
Separators == {":", "\n"}

\* [A-Z] and [a-z] under the "i" flag both match any ASCII letter
IsLetter(c) == c \in UpperSet \/ c \in LowerSet

toLowerCaseChar(c) == IF c \in UpperSet THEN LowerMap[c] ELSE c

(***************************************************************************)
(* String methods                                                          *)
(***************************************************************************)
toLowerCase(s) ==
  IF s = <<>> THEN <<>> ELSE [k \in 1..Len(s) |-> toLowerCaseChar(s[k])]

includes(s, sub) ==
  \E p \in 1..(Len(s) - Len(sub) + 1) : SubSeq(s, p, p + Len(sub) - 1) = sub

startsWith(s, prefix) ==
  Len(prefix) <= Len(s) /\ SubSeq(s, 1, Len(prefix)) = prefix

trim(s) ==
  LET keep == {k \in 1..Len(s) : s[k] \notin WhiteSpace}
  IN  IF keep = {} THEN <<>>
      ELSE LET lo == CHOOSE k \in keep : \A j \in keep : k <= j
               hi == CHOOSE k \in keep : \A j \in keep : k >= j
           IN  SubSeq(s, lo, hi)

RECURSIVE split(_)
\* s.split("\n")
split(s) ==
  LET nls == {k \in 1..Len(s) : s[k] = NL}
  IN  IF nls = {} THEN <<s>>
      ELSE LET k == CHOOSE n \in nls : \A j \in nls : n <= j
           IN  <<SubSeq(s, 1, k - 1)>> \o split(SubSeq(s, k + 1, Len(s)))

RECURSIVE join(_)
\* lines.join("\n")
join(lines) ==
  IF lines = <<>> THEN <<>>
  ELSE IF Len(lines) = 1 THEN lines[1]
  ELSE lines[1] \o <<NL>> \o join(Tail(lines))

(***************************************************************************)
(* The regular expressions                                                 *)
(*   `${heading}\\s*[:\\n]+\\s*(.*?)(?=${lookahead}|$)`, flags "i"         *)
(* A pattern is [heading, ahead]; ahead is the sequence of the lookahead's *)
(* alternatives before "$", each a literal followed by `letters` letter    *)
(* classes.  Positions are 1-based; position Len(text)+1 is the end.       *)
(***************************************************************************)
\* the literal lit at position p, compared case-insensitively
LitAt(text, p, lit) ==
  /\ p + Len(lit) - 1 <= Len(text)
  /\ \A k \in 1..Len(lit) : toLowerCaseChar(text[p + k - 1]) = toLowerCaseChar(lit[k])

\* how many characters from position q on are in (inSet) or not in (~inSet) S
Run(text, q, S, inSet) ==
  LET ok(k) == (text[k] \in S) = inSet
  IN  CHOOSE n \in 0..(Len(text) - q + 1) :
        /\ \A k \in q..(q + n - 1) : ok(k)
        /\ q + n > Len(text) \/ ~ok(q + n)

AltAt(text, e, alt) ==
  /\ LitAt(text, e, alt.lit)
  /\ e + Len(alt.lit) + alt.letters - 1 <= Len(text)
  /\ \A k \in 0..(alt.letters - 1) : IsLetter(text[e + Len(alt.lit) + k])

\* (?=alt1|alt2|...|$) at position e; without the "m" flag $ is the end of input
LookaheadAt(text, e, ahead) ==
  \/ \E a \in 1..Len(ahead) : AltAt(text, e, ahead[a])
  \/ e = Len(text) + 1

\* (.*?)(?=...) from position s: the first end the lazy body reaches, 0 if none
BodyEnd(text, s, ahead) ==
  LET ends == {e \in s..(s + Run(text, s, LineTerminators, FALSE)) :
                 LookaheadAt(text, e, ahead)}
  IN  IF ends = {} THEN 0 ELSE CHOOSE e \in ends : \A f \in ends : e <= f

NoMatch == [found |-> FALSE, index |-> 0, s |-> 0, e |-> 0]

\* the backtracking order of \s*[:\n]+\s* : each quantifier greedy, the
\* leftmost one given up last
Earlier(t, u) ==
  \/ t[1] > u[1]
  \/ t[1] = u[1] /\ t[2] > u[2]
  \/ t[1] = u[1] /\ t[2] = u[2] /\ t[3] >= u[3]

\* the match attempt that starts at position p
MatchAt(text, p, pat) ==
  IF ~LitAt(text, p, pat.heading) THEN NoMatch
  ELSE
    LET q == p + Len(pat.heading)
        S == UNION { UNION { { <<a, b, c>> :
                   c \in {c \in 0..Run(text, q + a + b, WhiteSpace, TRUE) :
                            BodyEnd(text, q + a + b + c, pat.ahead) # 0} } :
                 b \in 1..Run(text, q + a, Separators, TRUE) } :
               a \in 0..Run(text, q, WhiteSpace, TRUE) }
    IN  IF S = {} THEN NoMatch
        ELSE LET t == CHOOSE t \in S : \A u \in S : Earlier(t, u)
                 s == q + t[1] + t[2] + t[3]
             IN  [found |-> TRUE, index |-> p, s |-> s, e |-> BodyEnd(text, s, pat.ahead)]

\* text.match(pattern): the leftmost position at which an attempt succeeds
RegExpMatch(text, pat) ==
  LET P == {p \in 1..(Len(text) - Len(pat.heading) + 1) : MatchAt(text, p, pat).found}
  IN  IF P = {} THEN NoMatch
      ELSE MatchAt(text, CHOOSE p \in P : \A r \in P : p <= r, pat)

\* match[1]
Group1(text, match) == SubSeq(text, match.s, match.e - 1)

(***************************************************************************)
(* The functions of the module                                             *)
(***************************************************************************)
\* JavaScript null: no string, since a string holds one-character elements
NULL == <<"null">>

\* if (sectionText): null and "" are both falsy
Truthy(v) == v # NULL /\ v # <<>>

\* the lookahead \n[A-Z][a-z] of extractSection
DefaultAhead == <<[lit |-> <<NL>>, letters |-> 2]>>

\* endBoundaries.map(b => `\\n${b}`).join("|")
boundaryPattern(endBoundaries) ==
  [b \in 1..Len(endBoundaries) |-> [lit |-> <<NL>> \o endBoundaries[b], letters |-> 0]]

extractSectionMatch(text, sectionHeading) ==
  RegExpMatch(text, [heading |-> sectionHeading, ahead |-> DefaultAhead])

extractSection(text, sectionHeading) ==
  LET match == extractSectionMatch(text, sectionHeading)
  IN  IF match.found THEN trim(Group1(text, match)) ELSE NULL

extractSectionWithBoundariesMatch(text, startHeading, endBoundaries) ==
  RegExpMatch(text, [heading |-> startHeading, ahead |-> boundaryPattern(endBoundaries)])

extractSectionWithBoundaries(text, startHeading, endBoundaries) ==
  LET match == extractSectionWithBoundariesMatch(text, startHeading, endBoundaries)
  IN  IF match.found THEN trim(Group1(text, match)) ELSE NULL

RECURSIVE extractSectionMultiple(_, _)
extractSectionMultiple(text, possibleHeadings) ==
  IF possibleHeadings = <<>> THEN NULL
  ELSE LET sectionText == extractSection(text, Head(possibleHeadings))
       IN  IF Truthy(sectionText) THEN sectionText
           ELSE extractSectionMultiple(text, Tail(possibleHeadings))

StrLate == <<"l","a","t","e">>

StrPenalty == <<"p","e","n","a","l","t","y">>

\* the predicate with both toLowerCase() calls dropped
mentionsLateCaseSensitive(line) == includes(line, StrLate) \/ includes(line, StrPenalty)

\* the predicate of lines.filter(...)
mentionsLate(line) ==
  includes(toLowerCase(line), StrLate) \/ includes(toLowerCase(line), StrPenalty)

filterLatePolicy(text) == join(SelectSeq(split(text), mentionsLate))

(***************************************************************************)
(* The section catalog of the handler                                      *)
(***************************************************************************)
StrHomework == <<"H","o","m","e","w","o","r","k">>

StrGradingScale == <<"G","r","a","d","i","n","g"," ","S","c","a","l","e">>

StrGradeEvaluation ==
  <<"G","r","a","d","e"," ","E","v","a","l","u","a","t","i","o","n">>

StrGradedWork == <<"G","r","a","d","e","d"," ","W","o","r","k">>

StrAttendance == <<"A","t","t","e","n","d","a","n","c","e">>

StrCoursePolicies ==
  <<"C","o","u","r","s","e"," ","P","o","l","i","c","i","e","s">>

Colon == <<":">>

\* params.boundaries || null: hasBoundaries is FALSE where the entry has none
sections ==
  << [name |-> "Late Policy",
      headings |-> <<StrHomework \o Colon>>,
      hasBoundaries |-> FALSE, boundaries |-> <<>>],
     [name |-> "Grading Policy",
      headings |-> <<StrGradingScale \o Colon, StrGradingScale>>,
      hasBoundaries |-> TRUE, boundaries |-> <<StrAttendance, StrCoursePolicies>>],
     [name |-> "Grading Weights",
      headings |-> <<StrGradeEvaluation \o Colon, StrGradeEvaluation,
                     StrGradedWork \o Colon, StrGradedWork>>,
      hasBoundaries |-> TRUE, boundaries |-> <<StrGradingScale>>] >>

\* extractedData[section] = value on an object that keeps insertion order
SetKey(obj, key, value) ==
  IF \E k \in 1..Len(obj) : obj[k].key = key
  THEN [k \in 1..Len(obj) |->
          IF obj[k].key = key THEN [key |-> key, value |-> value] ELSE obj[k]]
  ELSE Append(obj, [key |-> key, value |-> value])

StrPDF == <<"%","P","D","F">>

\* the second test negated: !pdfText.trim().startsWith("%PDF")
needsOCRNegated(pdfText) == trim(pdfText) = <<>> \/ ~startsWith(trim(pdfText), StrPDF)

\* !pdfText.trim() || pdfText.trim().startsWith("%PDF")
needsOCR(pdfText) == trim(pdfText) = <<>> \/ startsWith(trim(pdfText), StrPDF)

(***************************************************************************)
(* Documents a client can upload                                           *)
(***************************************************************************)
\* "%PDF-1.4": pdf-parse handed back the raw container header
TxtRawPdf == StrPDF \o <<"-","1",".","4">>

TxtBlank == <<" ", NL, " ">>

\* "Homework: Late submissions incur a 10% penalty per day.\nAttendance: ..."
TxtScenarioA ==
  StrHomework \o
  <<":"," ","L","a","t","e"," ","s","u","b","m","i","s","s","i","o","n","s",
    " ","i","n","c","u","r"," ","a"," ","1","0","%"," ","p","e","n","a","l",
    "t","y"," ","p","e","r"," ","d","a","y",".",NL>> \o
  StrAttendance \o <<":"," ",".",".",".">>

\* "Grading Scale: A=90-100, B=80-89\nAttendance: mandatory"
TxtScenarioB ==
  StrGradingScale \o
  <<":"," ","A","=","9","0","-","1","0","0",","," ","B","=","8","0","-","8",
    "9",NL>> \o
  StrAttendance \o <<":"," ","m","a","n","d","a","t","o","r","y">>

\* "Homework:\nLate work: 5% PENALTY\nGraded Work:\n40% labs\nGrading Scale:\nA=90\nAttendance"
TxtSyllabus ==
  StrHomework \o
  <<":",NL,"L","a","t","e"," ","w","o","r","k",":"," ","5","%"," ","P","E",
    "N","A","L","T","Y",NL>> \o
  StrGradedWork \o <<":",NL,"4","0","%"," ","l","a","b","s",NL>> \o
  StrGradingScale \o <<":",NL,"A","=","9","0",NL>> \o StrAttendance

\* "Homework:\nRead chapter 1"
TxtHomeworkNoLate ==
  StrHomework \o <<":",NL,"R","e","a","d"," ","c","h","a","p","t","e","r"," ","1">>

\* "Homework:\nLate work loses 5%"
TxtPageHomework ==
  StrHomework \o
  <<":",NL,"L","a","t","e"," ","w","o","r","k"," ","l","o","s","e","s"," ","5","%">>

\* "Grading Scale: A=90"
TxtPageScale == StrGradingScale \o <<":"," ","A","=","9","0">>

\* " \n %PDF-1.4": the raw header after leading white space
TxtIndentedRawPdf == TxtBlank \o TxtRawPdf

\* what pdf-parse can return as data.text
NativeTexts ==
  {<<>>, TxtBlank, TxtRawPdf, TxtIndentedRawPdf, TxtScenarioA, TxtScenarioB, TxtSyllabus, TxtHomeworkNoLate}

\* what Tesseract can recognize on one page
PageTexts == {<<>>, TxtPageHomework, TxtPageScale}

\* the most pages of an uploaded document
MaxPages == 2

PageSeqs == UNION {[1..n -> PageTexts] : n \in 0..MaxPages}

NoText == <<>>

\* hasFile: the multipart body had a "file" field; originalname: its file name;
\* text: the text layer pdf-parse finds; pages: what each page shows
Docs ==
  {[hasFile |-> FALSE, originalname |-> FALSE, text |-> NoText, pages |-> <<>>],
   [hasFile |-> TRUE, originalname |-> FALSE, text |-> NoText, pages |-> <<>>]}
  \cup
  {[hasFile |-> TRUE, originalname |-> TRUE, text |-> t, pages |-> ps] :
     t \in NativeTexts, ps \in PageSeqs}

(***************************************************************************)
(* State                                                                   *)
(***************************************************************************)
VARIABLES
  pc,            \* where the handler of the request is
  doc,           \* the uploaded document
  tmpFile,       \* req.file.path exists on storage
  images,        \* the pages p whose ./tmp/page.p.png exists on storage
  pdfText,       \* let pdfText
  numPages,      \* const numPages of extractTextWithOCR
  i,             \* the page loop's i
  ocrText,       \* let ocrText
  secIdx,        \* which entry of Object.entries(sections) the loop is at
  hIdx,          \* which heading the boundary pass is at
  sectionText,   \* let sectionText
  extractedData, \* const extractedData, as its [key, value] entries in order
  response,      \* what res.status(..).json(..) sent
  failedAt,      \* history: the step that threw, "" when none did
  rasterized,    \* history: the pages handed to converter(i), in call order
  recognized,    \* history: the pages handed to Tesseract.recognize
  ocrCalls,      \* history: how many times extractTextWithOCR was called
  via,           \* history: the pass that set sectionText
  lastCall,      \* history: the last extractSectionWithBoundaries call
  fText,         \* filterLatePolicy applied on its own: the input,
  fOut,          \*   filterLatePolicy(fText),
  fOut2          \*   filterLatePolicy(fOut)

ocrVars == <<numPages, i, ocrText, rasterized, recognized>>

loopVars == <<secIdx, hIdx, sectionText, extractedData, via, lastCall>>

hvars ==
  <<pc, doc, tmpFile, images, pdfText, response, failedAt, ocrCalls, ocrVars, loopVars>>

fvars == <<fText, fOut, fOut2>>

vars == <<hvars, fvars>>

NoResponse == [status |-> 0, kind |-> "none", error |-> "", result |-> <<>>]

sendError(status, message) ==
  [status |-> status, kind |-> "error", error |-> message, result |-> <<>>]

\* res.json(data): status 200
sendJson(data) == [status |-> 200, kind |-> "result", error |-> "", result |-> data]

NoCall == [made |-> FALSE, heading |-> <<>>, boundaries |-> <<>>, match |-> NoMatch]

NoDoc == [hasFile |-> FALSE, originalname |-> FALSE, text |-> NoText, pages |-> <<>>]

HandlerInit ==
  /\ pc = "idle"
  /\ doc = NoDoc
  /\ tmpFile = FALSE
  /\ images = {}
  /\ pdfText = <<>>
  /\ numPages = 0
  /\ i = 0
  /\ ocrText = <<>>
  /\ secIdx = 0
  /\ hIdx = 0
  /\ sectionText = NULL
  /\ extractedData = <<>>
  /\ response = NoResponse
  /\ failedAt = ""
  /\ ocrCalls = 0
  /\ rasterized = <<>>
  /\ recognized = <<>>
  /\ via = "none"
  /\ lastCall = NoCall

FilterIdle == fText = <<>> /\ fOut = NULL /\ fOut2 = NULL

Init == HandlerInit /\ FilterIdle

(***************************************************************************)
(* POST /extract                                                          *)
(***************************************************************************)
\* upload.single("file"): multer stores the uploaded file under tmp/
Upload ==
  /\ pc = "idle"
  /\ \E d \in Docs :
       /\ doc' = d
       /\ tmpFile' = d.hasFile
  /\ pc' = "validate"
  /\ UNCHANGED <<images, pdfText, response, failedAt, ocrCalls, ocrVars, loopVars, fvars>>

\* if (!req.file) ... if (!req.file.originalname) ...
Validate ==
  /\ pc = "validate"
  /\ IF ~doc.hasFile
     THEN response' = sendError(400, "No file provided.") /\ pc' = "done"
     ELSE IF ~doc.originalname
     THEN response' = sendError(400, "No file selected.") /\ pc' = "done"
     ELSE response' = response /\ pc' = "native"
  /\ UNCHANGED <<doc, tmpFile, images, pdfText, failedAt, ocrCalls, ocrVars, loopVars, fvars>>

\* pdfText = await extractTextFromPDF(filePath): fs.readFile or pdfParse may
\* throw, and the function's catch throws the error on
extractTextFromPDF ==
  /\ pc = "native"
  /\ \E outcome \in {"ok", "native readFile", "native pdfParse"} :
       IF outcome = "ok"
       THEN pdfText' = doc.text /\ pc' = "fallback" /\ failedAt' = failedAt
       ELSE pdfText' = pdfText /\ pc' = "catch" /\ failedAt' = outcome
  /\ UNCHANGED <<doc, tmpFile, images, response, ocrCalls, ocrVars, loopVars, fvars>>

\* if (!pdfText.trim() || pdfText.trim().startsWith("%PDF"))
\*   pdfText = await extractTextWithOCR(filePath)
Fallback ==
  /\ pc = "fallback"
  /\ IF needsOCR(pdfText)
     THEN pc' = "ocr" /\ ocrCalls' = ocrCalls + 1 /\ secIdx' = secIdx
     ELSE pc' = "loop" /\ ocrCalls' = ocrCalls /\ secIdx' = 1
  /\ UNCHANGED <<doc, tmpFile, images, pdfText, response, failedAt, ocrVars,
                 hIdx, sectionText, extractedData, via, lastCall, fvars>>

\* extractTextWithOCR up to its loop: the page count, read with pdfParse again
pageCount ==
  /\ pc = "ocr"
  /\ \E outcome \in {"ok", "ocr readFile", "ocr pdfParse"} :
       IF outcome = "ok"
       THEN /\ numPages' = Len(doc.pages)
            /\ ocrText' = <<>>
            /\ i' = 1
            /\ pc' = "page"
            /\ failedAt' = failedAt
       ELSE /\ UNCHANGED <<numPages, ocrText, i>>
            /\ pc' = "catch"
            /\ failedAt' = outcome
  /\ UNCHANGED <<doc, tmpFile, images, pdfText, response, ocrCalls, rasterized,
                 recognized, loopVars, fvars>>

\* the loop test written i < numPages
pageLoopOffByOne ==
  /\ pc = "page"
  /\ IF i < numPages
     THEN pc' = "convert" /\ pdfText' = pdfText /\ secIdx' = secIdx
     ELSE pc' = "loop" /\ pdfText' = ocrText /\ secIdx' = 1
  /\ UNCHANGED <<doc, tmpFile, images, response, failedAt, ocrCalls, ocrVars,
                 hIdx, sectionText, extractedData, via, lastCall, fvars>>

\* for (let i = 1; i <= numPages; i++) ... return ocrText
pageLoop ==
  /\ pc = "page"
  /\ IF i <= numPages
     THEN pc' = "convert" /\ pdfText' = pdfText /\ secIdx' = secIdx
     ELSE pc' = "loop" /\ pdfText' = ocrText /\ secIdx' = 1
  /\ UNCHANGED <<doc, tmpFile, images, response, failedAt, ocrCalls, ocrVars,
                 hIdx, sectionText, extractedData, via, lastCall, fvars>>

\* conversionResult = await converter(i): pdf2pic writes ./tmp/page.<i>.png
convert ==
  /\ pc = "convert"
  /\ rasterized' = Append(rasterized, i)
  /\ \E ok \in BOOLEAN :
       IF ok
       THEN images' = images \cup {i} /\ pc' = "recognize" /\ failedAt' = failedAt
       ELSE images' = images /\ pc' = "catch" /\ failedAt' = "rasterize"
  /\ UNCHANGED <<doc, tmpFile, pdfText, response, ocrCalls, numPages, i, ocrText,
                 recognized, loopVars, fvars>>

\* a catch that returns the text recognized so far instead of throwing
recognizeSwallows ==
  /\ pc = "recognize"
  /\ recognized' = Append(recognized, i)
  /\ \E ok \in BOOLEAN :
       IF ok
       THEN /\ ocrText' = ocrText \o doc.pages[i] \o <<NL>>
            /\ pc' = "unlinkImage"
            /\ failedAt' = failedAt
            /\ UNCHANGED <<pdfText, secIdx>>
       ELSE /\ ocrText' = ocrText
            /\ pdfText' = ocrText
            /\ secIdx' = 1
            /\ pc' = "loop"
            /\ failedAt' = "recognize"
  /\ UNCHANGED <<doc, tmpFile, images, response, ocrCalls, numPages, i,
                 rasterized, hIdx, sectionText, extractedData, via, lastCall, fvars>>

\* await Tesseract.recognize(conversionResult.path, "eng"); ocrText += text + "\n"
recognize ==
  /\ pc = "recognize"
  /\ recognized' = Append(recognized, i)
  /\ \E ok \in BOOLEAN :
       IF ok
       THEN /\ ocrText' = ocrText \o doc.pages[i] \o <<NL>>
            /\ pc' = "unlinkImage"
            /\ failedAt' = failedAt
       ELSE /\ ocrText' = ocrText
            /\ pc' = "catch"
            /\ failedAt' = "recognize"
  /\ UNCHANGED <<doc, tmpFile, images, pdfText, response, ocrCalls, numPages, i,
                 rasterized, loopVars, fvars>>

\* await fs.unlink(conversionResult.path), then i++
unlinkImage ==
  /\ pc = "unlinkImage"
  /\ \E ok \in BOOLEAN :
       IF ok
       THEN images' = images \ {i} /\ i' = i + 1 /\ pc' = "page" /\ failedAt' = failedAt
       ELSE images' = images /\ i' = i /\ pc' = "catch" /\ failedAt' = "unlink image"
  /\ UNCHANGED <<doc, tmpFile, pdfText, response, ocrCalls, numPages, ocrText,
                 rasterized, recognized, loopVars, fvars>>

\* for (const [section, params] of Object.entries(sections)), and the branch
\* on params.boundaries
sectionLoop ==
  /\ pc = "loop"
  /\ IF secIdx <= Len(sections)
     THEN /\ sectionText' = NULL
          /\ hIdx' = 1
          /\ via' = "none"
          /\ pc' = IF sections[secIdx].hasBoundaries THEN "boundaryPass" ELSE "defaultPass"
     ELSE /\ UNCHANGED <<sectionText, hIdx, via>>
          /\ pc' = "unlink"
  /\ UNCHANGED <<doc, tmpFile, images, pdfText, response, failedAt, ocrCalls, ocrVars,
                 secIdx, extractedData, lastCall, fvars>>

\* the loop without its break: the last heading's result stands
boundaryPassNoBreak ==
  /\ pc = "boundaryPass"
  /\ LET params == sections[secIdx]
     IN  IF hIdx <= Len(params.headings)
         THEN LET heading == params.headings[hIdx]
                  found == extractSectionWithBoundaries(pdfText, heading, params.boundaries)
              IN  /\ sectionText' = found
                  /\ lastCall' =
                       [made |-> TRUE, heading |-> heading, boundaries |-> params.boundaries,
                        match |-> extractSectionWithBoundariesMatch(pdfText, heading,
                                                                    params.boundaries)]
                  /\ pc' = pc
                  /\ hIdx' = hIdx + 1
                  /\ via' = IF Truthy(found) THEN "boundary" ELSE "none"
         ELSE /\ pc' = "afterPass"
              /\ UNCHANGED <<sectionText, lastCall, hIdx, via>>
  /\ UNCHANGED <<doc, tmpFile, images, pdfText, response, failedAt, ocrCalls, ocrVars,
                 secIdx, extractedData, fvars>>

\* for (const heading of headings) {
\*   sectionText = extractSectionWithBoundaries(pdfText, heading, boundaries);
\*   if (sectionText) break; }
boundaryPass ==
  /\ pc = "boundaryPass"
  /\ LET params == sections[secIdx]
     IN  IF hIdx <= Len(params.headings)
         THEN LET heading == params.headings[hIdx]
                  found == extractSectionWithBoundaries(pdfText, heading, params.boundaries)
              IN  /\ sectionText' = found
                  /\ lastCall' =
                       [made |-> TRUE, heading |-> heading, boundaries |-> params.boundaries,
                        match |-> extractSectionWithBoundariesMatch(pdfText, heading,
                                                                    params.boundaries)]
                  /\ IF Truthy(found)
                     THEN pc' = "afterPass" /\ hIdx' = hIdx /\ via' = "boundary"
                     ELSE pc' = pc /\ hIdx' = hIdx + 1 /\ via' = via
         ELSE /\ pc' = "afterPass"
              /\ UNCHANGED <<sectionText, lastCall, hIdx, via>>
  /\ UNCHANGED <<doc, tmpFile, images, pdfText, response, failedAt, ocrCalls, ocrVars,
                 secIdx, extractedData, fvars>>

\* if (!sectionText) sectionText = extractSectionMultiple(pdfText, headings)
afterPass ==
  /\ pc = "afterPass"
  /\ pc' = IF ~Truthy(sectionText) THEN "defaultPass" ELSE "store"
  /\ UNCHANGED <<doc, tmpFile, images, pdfText, response, failedAt, ocrCalls, ocrVars,
                 loopVars, fvars>>

\* sectionText = extractSectionMultiple(pdfText, headings)
defaultPass ==
  /\ pc = "defaultPass"
  /\ sectionText' = extractSectionMultiple(pdfText, sections[secIdx].headings)
  /\ via' = "default"
  /\ pc' = "store"
  /\ UNCHANGED <<doc, tmpFile, images, pdfText, response, failedAt, ocrCalls, ocrVars,
                 secIdx, hIdx, extractedData, lastCall, fvars>>

\* if (section === "Late Policy" && sectionText) sectionText = filterLatePolicy(..);
\* extractedData[section] = sectionText
store ==
  /\ pc = "store"
  /\ LET section == sections[secIdx].name
         value == IF section = "Late Policy" /\ Truthy(sectionText)
                  THEN filterLatePolicy(sectionText)
                  ELSE sectionText
     IN  /\ sectionText' = value
         /\ extractedData' = SetKey(extractedData, section, value)
  /\ secIdx' = secIdx + 1
  /\ pc' = "loop"
  /\ UNCHANGED <<doc, tmpFile, images, pdfText, response, failedAt, ocrCalls, ocrVars,
                 hIdx, via, lastCall, fvars>>

\* await fs.unlink(filePath)
unlinkFile ==
  /\ pc = "unlink"
  /\ \E ok \in BOOLEAN :
       IF ok
       THEN tmpFile' = FALSE /\ pc' = "respond" /\ failedAt' = failedAt
       ELSE tmpFile' = tmpFile /\ pc' = "catch" /\ failedAt' = "unlink file"
  /\ UNCHANGED <<doc, images, pdfText, response, ocrCalls, ocrVars, loopVars, fvars>>

\* return res.json(extractedData)
respond ==
  /\ pc = "respond"
  /\ response' = sendJson(extractedData)
  /\ pc' = "done"
  /\ UNCHANGED <<doc, tmpFile, images, pdfText, failedAt, ocrCalls, ocrVars, loopVars, fvars>>

\* catch (err) { return res.status(500).json({ error: "Internal Server Error" }) }
handlerCatch ==
  /\ pc = "catch"
  /\ response' = sendError(500, "Internal Server Error")
  /\ pc' = "done"
  /\ UNCHANGED <<doc, tmpFile, images, pdfText, failedAt, ocrCalls, ocrVars, loopVars, fvars>>

Next ==
  \/ Upload
  \/ Validate
  \/ extractTextFromPDF
  \/ Fallback
  \/ pageCount
  \/ pageLoop
  \/ convert
  \/ recognize
  \/ unlinkImage
  \/ sectionLoop
  \/ boundaryPass
  \/ afterPass
  \/ defaultPass
  \/ store
  \/ unlinkFile
  \/ respond
  \/ handlerCatch

Spec == Init /\ [][Next]_vars

(***************************************************************************)
(* The section loop over any acquired text: the handler from the point    *)
(* where pdfText is set, for texts made of a few syllabus lines            *)
(***************************************************************************)
\* the lines of an acquired text
SyllabusLines ==
  { StrGradingScale \o Colon,
    StrGradeEvaluation \o Colon,
    StrGradedWork \o <<":", " ", "3", "0", "%">>,
    <<"5", "0", "%">>,
    StrHomework \o Colon,
    StrAttendance,
    <<"L", "a", "t", "e", " ", "f", "e", "e", " ", "5", "%">> }

\* the most lines of an acquired text
MaxLines == 4

AcquiredTexts == {join(ls) : ls \in UNION {[1..n -> SyllabusLines] : n \in 1..MaxLines}}

InitSections ==
  /\ pc = "loop"
  /\ pdfText \in AcquiredTexts
  /\ doc = [hasFile |-> TRUE, originalname |-> TRUE, text |-> pdfText, pages |-> <<>>]
  /\ tmpFile = TRUE
  /\ images = {}
  /\ numPages = 0
  /\ i = 0
  /\ ocrText = <<>>
  /\ secIdx = 1
  /\ hIdx = 0
  /\ sectionText = NULL
  /\ extractedData = <<>>
  /\ response = NoResponse
  /\ failedAt = ""
  /\ ocrCalls = 0
  /\ rasterized = <<>>
  /\ recognized = <<>>
  /\ via = "none"
  /\ lastCall = NoCall
  /\ FilterIdle

NextSections ==
  \/ sectionLoop
  \/ boundaryPass
  \/ afterPass
  \/ defaultPass
  \/ store
  \/ unlinkFile
  \/ respond
  \/ handlerCatch

SpecSections == InitSections /\ [][NextSections]_vars

(***************************************************************************)
(* filterLatePolicy on its own, applied once and then to its own result    *)
(***************************************************************************)
FilterLines ==
  { <<>>,
    <<"L", "a", "t", "e", " ", "f", "e", "e">>,
    <<"P", "E", "N", "A", "L", "T", "Y">>,
    <<"p", "l", "a", "t", "e">>,
    <<"q", "u", "i", "z", " ", "1">> }

\* the most lines of a text handed to the filter
MaxFilterLines == 3

FilterTexts == {join(ls) : ls \in UNION {[1..n -> FilterLines] : n \in 1..MaxFilterLines}}

InitFilter == HandlerInit /\ fText \in FilterTexts /\ fOut = NULL /\ fOut2 = NULL

applyFilter ==
  /\ fOut = NULL
  /\ fOut' = filterLatePolicy(fText)
  /\ UNCHANGED <<fText, fOut2, hvars>>

applyFilterAgain ==
  /\ fOut # NULL
  /\ fOut2 = NULL
  /\ fOut2' = filterLatePolicy(fOut)
  /\ UNCHANGED <<fText, fOut, hvars>>

NextFilter == applyFilter \/ applyFilterAgain

SpecFilter == InitFilter /\ [][NextFilter]_vars

(***************************************************************************)
(* Properties                                                              *)
(***************************************************************************)
\* the request got past both validations of the handler
ReachedCore == doc.hasFile /\ doc.originalname

NativeFailures == {"native readFile", "native pdfParse"}

OcrFailures == {"ocr readFile", "ocr pdfParse", "rasterize", "recognize", "unlink image"}

\* text acquisition has not begun or is still going on
BeforeOrInAcquisition ==
  pc \in {"idle", "validate", "native", "fallback", "ocr", "page", "convert",
          "recognize", "unlinkImage"}

\* t is non-empty after trimming and does not start with "%PDF" after trimming
UsableText(t) ==
  \E f \in 1..Len(t) :
    /\ t[f] \notin WhiteSpace
    /\ \A k \in 1..(f - 1) : t[k] \in WhiteSpace
    /\ ~(/\ f + 3 <= Len(t)
         /\ t[f] = "%" /\ t[f + 1] = "P" /\ t[f + 2] = "D" /\ t[f + 3] = "F")

\* <<1, 2, ..., n>>
UpTo(n) == IF n = 0 THEN <<>> ELSE [k \in 1..n |-> k]

RECURSIVE PagesText(_)
\* every page's text followed by a newline, in page order
PagesText(pages) ==
  IF pages = <<>> THEN <<>> ELSE Head(pages) \o <<NL>> \o PagesText(Tail(pages))

Least(S) == CHOOSE k \in S : \A j \in S : k <= j

\* C1: once the response of a request that reached the core has been sent,
\* the uploaded temporary file no longer exists on storage, on every exit path.
C1_TempFileGone == (pc = "done" /\ ReachedCore) => ~tmpFile

\* C2: every successful response holds each of the three catalog keys exactly
\* once, and every value is null or a non-empty trimmed string, never "".
C2_ResultShape ==
  (pc = "done" /\ response.kind = "result") =>
    LET data == response.result
    IN  /\ Len(data) = Len(sections)
        /\ \A s \in 1..Len(sections) :
             Cardinality({k \in 1..Len(data) : data[k].key = sections[s].name}) = 1
        /\ \A k \in 1..Len(data) :
             \/ data[k].value = NULL
             \/ /\ data[k].value # <<>>
                /\ data[k].value[1] \notin WhiteSpace
                /\ data[k].value[Len(data[k].value)] \notin WhiteSpace

\* C3: when the text pdf-parse returns is non-empty after trimming and does not
\* start with "%PDF", no OCR step runs in the request: extractTextWithOCR is not
\* called, no page is rasterized or recognized.
C3_NoOcrOnUsableText ==
  UsableText(doc.text) =>
    /\ ocrCalls = 0
    /\ rasterized = <<>>
    /\ recognized = <<>>
    /\ images = {}
    /\ pc \notin {"ocr", "page", "convert", "recognize", "unlinkImage"}

C3_Witness ==
  /\ pc = "done"
  /\ response.kind = "result"
  /\ UsableText(doc.text)
  /\ pdfText = doc.text
  /\ Len(doc.pages) >= 1

\* C4: when pdf-parse returns blank text or text starting with "%PDF" and no
\* step of text acquisition fails, extractTextWithOCR is called once, rasterizes
\* and recognizes each page exactly once in the order 1..N, returns every page's
\* text followed by a newline in that order, and leaves no page image behind.
\* Pages are handed to the converter and to Tesseract in the order 1, 2, ...
\* at every moment of the run.
C4_OcrEveryPageOnce ==
  /\ /\ rasterized = UpTo(Len(rasterized))
     /\ recognized = UpTo(Len(recognized))
     /\ Len(rasterized) - Len(recognized) \in {0, 1}
     /\ Len(rasterized) <= Len(doc.pages)
  /\ ( /\ ReachedCore
       /\ ~UsableText(doc.text)
       /\ ~BeforeOrInAcquisition
       /\ failedAt \notin (NativeFailures \cup OcrFailures) ) =>
       /\ ocrCalls = 1
       /\ rasterized = UpTo(Len(doc.pages))
       /\ recognized = UpTo(Len(doc.pages))
       /\ pdfText = PagesText(doc.pages)
       /\ images = {}

C4_Witness ==
  /\ pc = "done"
  /\ response.kind = "result"
  /\ ~UsableText(doc.text)
  /\ ocrCalls = 1
  /\ Len(doc.pages) >= 2
  /\ recognized = UpTo(Len(doc.pages))
  /\ doc.pages[1] # doc.pages[2]

\* C5: when Tesseract.recognize fails on page i, the image of page i is gone
\* from storage by the time the request has ended.
C5_PageImageGone == (pc = "done" /\ failedAt = "recognize") => i \notin images

\* C6: when a step of text acquisition fails, the section loop never runs, no
\* extraction result is built or sent, and the request ends with the generic
\* server error.
C6_NoPartialResult ==
  failedAt \in (NativeFailures \cup OcrFailures) =>
    /\ pc \in {"catch", "done"}
    /\ secIdx = 0
    /\ extractedData = <<>>
    /\ ~lastCall.made
    /\ response.kind # "result"
    /\ pc = "done" =>
         /\ response.status = 500
         /\ response.kind = "error"
         /\ response.error = "Internal Server Error"

C6_Witness ==
  /\ pc = "done"
  /\ failedAt = "recognize"
  /\ i = 2
  /\ ocrText # <<>>
  /\ response.status = 500

\* "Late submissions incur a 10% penalty per day."
TxtScenarioALatePolicy ==
  <<"L","a","t","e"," ","s","u","b","m","i","s","s","i","o","n","s"," ","i",
    "n","c","u","r"," ","a"," ","1","0","%"," ","p","e","n","a","l","t","y",
    " ","p","e","r"," ","d","a","y",".">>

\* C7: scenario A: for the acquired text
\* "Homework: Late submissions incur a 10% penalty per day.\nAttendance: ..."
\* the result's "Late Policy" is "Late submissions incur a 10% penalty per day.".
C7_ScenarioA ==
  (pc = "done" /\ response.kind = "result" /\ pdfText = TxtScenarioA) =>
    \E k \in 1..Len(response.result) :
      /\ response.result[k].key = "Late Policy"
      /\ response.result[k].value = TxtScenarioALatePolicy

\* C8: when a boundary literal starts a line after the heading, what
\* extractSectionWithBoundaries returns lies between the heading and the first
\* such boundary line: the captured body does not reach into that line or
\* beyond it.  (Stated for the calls that return a string; the heading is its
\* first occurrence in the text.)
C8_BodyBeforeBoundary ==
  lastCall.made =>
    LET H == lastCall.heading
        B == lastCall.boundaries
        m == lastCall.match
        occurrences == {p \in 1..Len(pdfText) : LitAt(pdfText, p, H)}
    IN  occurrences # {} =>
          LET after == Least(occurrences) + Len(H)
              boundaryLines ==
                {e \in after..Len(pdfText) :
                   /\ pdfText[e] = NL
                   /\ \E b \in 1..Len(B) : LitAt(pdfText, e + 1, B[b])}
          IN  (boundaryLines # {} /\ m.found) =>
                (m.s >= after /\ m.e <= Least(boundaryLines))

\* the boundary-aware result of the k-th heading of the section being located
BoundaryResult(k) ==
  extractSectionWithBoundaries(pdfText, sections[secIdx].headings[k],
                               sections[secIdx].boundaries)

\* the default-boundary result of the k-th heading
DefaultResult(k) == extractSection(pdfText, sections[secIdx].headings[k])

\* the section loop has settled sectionText for a section with boundaries
Located == pc = "store" /\ sections[secIdx].hasBoundaries

\* C9 as amended: the section loop returns the boundary-aware match of the
\* first heading of the list whose match is non-empty, wherever the headings
\* stand in the document; a later heading's match is returned only when every
\* earlier heading has no non-empty boundary-aware match (it does not match, or
\* matches an empty body), and the default-boundary pass runs only when no
\* heading has a non-empty boundary-aware match, where it again returns the
\* match of the first heading of the list that has a non-empty one.
C9_HeadingOrder ==
  Located =>
    LET n == Len(sections[secIdx].headings)
        hits == {k \in 1..n : Truthy(DefaultResult(k))}
    IN  /\ via \in {"boundary", "default"}
        /\ via = "boundary" =>
             /\ hIdx \in 1..n
             /\ Truthy(sectionText)
             /\ sectionText = BoundaryResult(hIdx)
             /\ \A j \in 1..(hIdx - 1) : ~Truthy(BoundaryResult(j))
        /\ via = "default" =>
             /\ \A j \in 1..n : ~Truthy(BoundaryResult(j))
             /\ sectionText = IF hits = {} THEN NULL ELSE DefaultResult(Least(hits))

\* two headings both match, the later one of the list earlier in the document
\* and with another body, and the first one's match is returned
C9_Witness ==
  /\ Located
  /\ via = "boundary"
  /\ hIdx = 1
  /\ \E k \in 2..Len(sections[secIdx].headings) :
       /\ Truthy(BoundaryResult(k))
       /\ BoundaryResult(k) # sectionText
       /\ extractSectionWithBoundariesMatch(pdfText, sections[secIdx].headings[k],
                                            sections[secIdx].boundaries).index
            < lastCall.match.index

\* C9: a later heading's match is returned only when every earlier heading
\* fails to match in the boundary-aware pass, and the default-boundary pass is
\* tried only after the boundary-aware pass yielded no match for any heading.
C9_OnlyAfterNoMatch ==
  Located =>
    LET n == Len(sections[secIdx].headings)
    IN  /\ via = "boundary" => \A j \in 1..(hIdx - 1) : BoundaryResult(j) = NULL
        /\ via = "default" => \A j \in 1..n : BoundaryResult(j) = NULL

\* the lines of t, split at newlines
LinesOf(t) == split(t)

\* line holds the word w somewhere, letter case aside
HasWord(line, w) == \E p \in 1..Len(line) : LitAt(line, p, w)

\* C10: filterLatePolicy returns, joined by newlines and in their order, exactly
\* the input's lines that hold "late" or "penalty" in any letter case, each
\* unchanged; applied to its own result it returns that result.
C10_FilterKeepsLateLines ==
  /\ fOut # NULL =>
       LET input == LinesOf(fText)
           kept == {k \in 1..Len(input) :
                      HasWord(input[k], StrLate) \/ HasWord(input[k], StrPenalty)}
           nth(j) == CHOOSE k \in kept : Cardinality({m \in kept : m < k}) = j - 1
       IN  IF kept = {} THEN fOut = <<>>
           ELSE /\ Len(LinesOf(fOut)) = Cardinality(kept)
                /\ \A j \in 1..Cardinality(kept) : LinesOf(fOut)[j] = input[nth(j)]
  /\ fOut2 # NULL => fOut2 = fOut

\* a three-line input of which the filter drops a line and keeps an upper-case one
C10_Witness ==
  /\ fOut2 # NULL
  /\ Len(LinesOf(fText)) >= 3
  /\ fOut # <<>>
  /\ fOut # fText
  /\ HasWord(fOut, StrPenalty)
  /\ ~includes(fOut, StrPenalty)
====
